---- MODULE Spec2Model ----
(***************************************************************************)
(* Model of the humanization feedback loop of harbor-lite:                 *)
(*   workers/python/pipelines/humanization_pipeline.py  HumanizationPipeline.run *)
(*   workers/python/utils/zerogpt.py                     ZeroGPTClient.check *)
(*   workers/python/main.py                              main (humanization) *)
(* One execution of main is modelled, with every path of its dispatch; the *)
(* collaborator calls (Detector = ZeroGPTClient, Rewriter = ThesisHumanizer)*)
(* are the points where the environment chooses an outcome.                *)
(***************************************************************************)
EXTENDS Integers, Sequences, FiniteSets, TLC

(* ------------------------------ bounds --------------------------------- *)
\* largest iteration budget the caller passes
MaxBudget == 2
\* number of distinct texts the Rewriter can produce / the caller can pass
NumTexts == 2

Texts == 1..NumTexts
\* value of a local that has not been assigned yet
NoText == 0

\* budgets the caller may pass; run() does not validate, so -1 is accepted
Budgets == (-1)..MaxBudget
\* target scores the caller may pass (70 is the default of run and of main)
TargetScores == {-10, 0, 70, 110}
\* citation sequences the caller may pass
CitationSets == { <<>>, <<"c1", "c2">> }
\* len(sys.argv) of the process: main needs the script, a pipeline and data
ArgCounts == {2, 3}
\* sys.argv[1]
PipelineNames == {"generation", "humanization", "export"}

(* ------------------- the detection service's answers ------------------- *)
\* bodies of an HTTP 200 answer that decode to a JSON object
Bodies ==
    { [success |-> TRUE,
       data |-> [is_human_written |-> h, is_gpt_generated |-> 100 - h]]
         : h \in {0, 30, 40, 70} }
    \cup { [success |-> TRUE, data |-> <<>>],
           [fakePercentage |-> 150],
           <<>> }

\* what one requests.post / raise_for_status / response.json() can yield
Responses ==
    { [kind |-> k, body |-> <<>>]
         : k \in {"network_error", "http_error", "invalid_json"} }
    \cup { [kind |-> "json_object", body |-> b] : b \in Bodies }

\* no request is sent when the API key is missing
NoRequest == [kind |-> "no_request", body |-> <<>>]

\* dict.get(key, default)
Get(d, key, default) == IF key \in DOMAIN d THEN d[key] ELSE default

\* ZeroGPTClient.check
ZeroGPTCheck(has_key, resp) ==
    IF ~has_key
    THEN [human_percentage |-> 100, fake_percentage |-> 0]
    ELSE IF resp.kind # "json_object"
    THEN [human_percentage |-> 100, fake_percentage |-> 0, error |-> resp.kind]
    ELSE LET data == resp.body IN
         IF Get(data, "success", FALSE) /\ "data" \in DOMAIN data
         THEN [human_percentage |-> Get(data.data, "is_human_written", 0),
               fake_percentage  |-> Get(data.data, "is_gpt_generated", 0),
               raw |-> data]
         ELSE LET fake_percentage == Get(data, "fakePercentage", 0) IN
              [human_percentage |-> 100 - fake_percentage,
               fake_percentage  |-> fake_percentage,
               raw |-> data]

(* ------------------------------ state ---------------------------------- *)
VARIABLES
    argc,           \* len(sys.argv)
    pipeline_name,  \* sys.argv[1]
    json_valid,     \* sys.argv[2] decodes as JSON
    data_keys,      \* the decoded data has the keys thesis_text and citations
    detector,       \* the answers the detection service can give for each text
    rewriter,       \* the texts the Rewriter can return for each text (NoText: it raises)
    invocation,     \* 1 for the first execution, 2 for a repetition of it
    first_result,   \* what run returned in the first execution (<<>>: nothing)
    api_key,        \* ZeroGPTClient.api_key is set (TRUE) or empty (FALSE)
    thesis_text,    \* arguments of run
    citations,
    max_iterations,
    target_score,
    current_text,   \* locals of run
    iteration,
    best_score,
    best_text,
    initial_check,
    current_score,
    history,
    new_text,
    check_result,
    pc,             \* position of the invocation
    result,         \* <<>> until run returns, then <<the returned record>>
    error,          \* "" until an exception leaves run, then its type
    stdout,         \* documents main has written to stdout
    exit_code,      \* -1 while the process runs
    response,       \* answer of the detection service to the latest check
    calls           \* log of the collaborator calls made by run, in order

vars == << argc, pipeline_name, json_valid, data_keys, detector, rewriter,
           invocation, first_result, api_key, thesis_text, citations, max_iterations, target_score,
           current_text, iteration, best_score, best_text, initial_check,
           current_score, history, new_text, check_result, pc, result, error,
           stdout, exit_code, response, calls >>

args == << api_key, thesis_text, citations, max_iterations, target_score >>
outs == << stdout, exit_code >>
proc == << argc, pipeline_name, json_valid, data_keys, detector, rewriter,
          invocation, first_result >>
\* the locals of run
locals == << current_text, iteration, best_score, best_text, initial_check,
             current_score, history, new_text, check_result >>

\* the process is started: main is about to look at sys.argv, run has no frame
InitProcess ==
    /\ argc \in ArgCounts
    /\ pipeline_name \in PipelineNames
    /\ json_valid \in BOOLEAN
    /\ data_keys \in BOOLEAN
    /\ api_key \in BOOLEAN
    /\ thesis_text = 1        \* the texts are interchangeable: the input is text 1
    /\ citations \in CitationSets
    /\ max_iterations \in Budgets
    /\ target_score \in TargetScores
    /\ current_text = NoText
    /\ iteration = 0
    /\ best_score = 0
    /\ best_text = NoText
    /\ initial_check = <<>>
    /\ current_score = 0
    /\ history = <<>>
    /\ new_text = NoText
    /\ check_result = <<>>
    /\ pc = "main"
    /\ result = <<>>
    /\ error = ""
    /\ stdout = <<>>
    /\ exit_code = -1
    /\ response = NoRequest
    /\ calls = <<>>
    /\ invocation = 1
    /\ first_result = <<>>

\* collaborators that may answer differently on every call
Init ==
    /\ InitProcess
    /\ detector = [t \in Texts |-> Responses]
    /\ rewriter = [t \in Texts |-> Texts \cup {NoText}]

\* the answers of a detection service that is a function of the text
DeterministicAnswers ==
    { [kind |-> "network_error", body |-> <<>>] }
    \cup { [kind |-> "json_object",
            body |-> [success |-> TRUE,
                      data |-> [is_human_written |-> h, is_gpt_generated |-> 100 - h]]]
            : h \in {30, 70} }

\* the command line reaches the call of run
IsRunCommand ==
    argc >= 3 /\ json_valid /\ pipeline_name = "humanization" /\ data_keys

\* collaborators that are functions of their input text; the key is set and
\* the caller passes no citations, the target is the default or unreachable
InitDeterministic ==
    /\ InitProcess
    /\ api_key
    /\ citations = <<>>
    /\ target_score \in {70, 110}
    /\ detector \in [Texts -> { {r} : r \in DeterministicAnswers }]
    /\ rewriter \in [Texts -> { {t} : t \in Texts \cup {NoText} }]
    /\ IsRunCommand
         \/ /\ max_iterations = 0
            /\ target_score = 70
            /\ \A t \in Texts :
                  /\ rewriter[t] = {NoText}
                  /\ detector[t] = { [kind |-> "network_error", body |-> <<>>] }

\* the answers the environment can give to a check made with this client
Answers(text) == IF api_key THEN detector[text] ELSE {NoRequest}

DetectorCall(text) ==
    [callee |-> "detector", text |-> text, citations |-> <<>>, output |-> NoText]
RewriterCall(text, cits, out) ==
    [callee |-> "rewriter", text |-> text, citations |-> cits, output |-> out]

(* ------------------------------ print ---------------------------------- *)
\* variant of main line 28 without the patch: print writes to stdout
PrintStreamUnpatched(file) == IF file = "none" THEN "stdout" ELSE file

\* main, line 28: the patched builtins.print sends a call without file= to stderr
PrintStream(file) == IF file = "none" THEN "stderr" ELSE file

\* stdout after a print(...) of run or of ZeroGPTClient.check, none of which
\* passes file=
Logged(out) ==
    IF PrintStream("none") = "stdout"
    THEN Append(out, [document |-> "log", value |-> "print"])
    ELSE out

(* ------------------------------ run ------------------------------------ *)
\* variant of line 22 with a strict comparison
EarlyExitStrict(score, target) == score > target

\* line 22: if current_score >= target_score
EarlyExit(score, target) == score >= target

\* variant of line 32 that runs one pass too many
LoopCondInclusive(i, n) == i <= n

\* line 32: while iteration < max_iterations
LoopCond(i, n) == i < n

\* line 51: if new_score > best_score
Improves(score, best) == score > best

\* variant of line 55 with a strict comparison
TargetReachedStrict(score, target) == score > target

\* line 55: if new_score >= target_score
TargetReached(score, target) == score >= target

\* variant of line 45 that numbers the rewrites from 0
HistoryEntryFromZero(i, score) == [iteration |-> i - 1, score |-> score]

\* line 45: {"iteration": iteration, "score": new_score}
HistoryEntry(i, score) == [iteration |-> i, score |-> score]

\* variant of lines 11-13 in which the best score outlives the call, as an
\* attribute of the pipeline or of the module would
RunStartKeepingBest ==
    /\ stdout' = Logged(stdout)
    /\ pc = "run"
    /\ current_text' = thesis_text
    /\ iteration' = 0
    /\ best_score' = best_score
    /\ best_text' = thesis_text
    /\ initial_check' = <<>>
    /\ current_score' = 0
    /\ history' = <<>>
    /\ new_text' = NoText
    /\ check_result' = <<>>
    /\ pc' = "initial_check"
    /\ UNCHANGED << args, proc, exit_code, result, error, response, calls >>

\* lines 6-13: a fresh frame of run
RunStart ==
    /\ stdout' = Logged(stdout)
    /\ pc = "run"
    /\ current_text' = thesis_text
    /\ iteration' = 0
    /\ best_score' = 0
    /\ best_text' = thesis_text
    /\ initial_check' = <<>>
    /\ current_score' = 0
    /\ history' = <<>>
    /\ new_text' = NoText
    /\ check_result' = <<>>
    /\ pc' = "initial_check"
    /\ UNCHANGED << args, proc, exit_code, result, error, response, calls >>

\* lines 17-30
InitialCheck ==
    /\ stdout' = Logged(stdout)
    /\ pc = "initial_check"
    /\ \E resp \in Answers(current_text) :
         LET chk == ZeroGPTCheck(api_key, resp)
             score == chk.human_percentage
         IN  /\ response' = resp
             /\ initial_check' = chk
             /\ current_score' = score
             /\ calls' = Append(calls, DetectorCall(current_text))
             /\ IF EarlyExit(score, target_score)
                THEN /\ result' = << [humanized_text |-> current_text,
                                      final_score |-> chk,
                                      iterations |-> 0,
                                      history |-> << [iteration |-> 0, score |-> score] >>] >>
                     /\ pc' = "returned"
                     /\ history' = history
                ELSE /\ history' = << [iteration |-> 0, score |-> score] >>
                     /\ pc' = "loop"
                     /\ result' = result
    /\ UNCHANGED << args, proc, exit_code, current_text, iteration, best_score, best_text,
                    new_text, check_result, error >>

\* lines 32-33: the loop condition holds, the counter is incremented
LoopEnter ==
    /\ stdout' = Logged(stdout)
    /\ pc = "loop"
    /\ LoopCond(iteration, max_iterations)
    /\ iteration' = iteration + 1
    /\ pc' = "humanize"
    /\ UNCHANGED << args, proc, exit_code, current_text, best_score, best_text, initial_check,
                    current_score, history, new_text, check_result, result, error,
                    response, calls >>

\* line 32: the loop condition fails
LoopExit ==
    /\ pc = "loop"
    /\ ~LoopCond(iteration, max_iterations)
    /\ pc' = "select"
    /\ UNCHANGED << args, proc, outs, current_text, iteration, best_score, best_text,
                    initial_check, current_score, history, new_text, check_result,
                    result, error, response, calls >>

\* variant of line 37 that rewrites from the best text seen so far
RewriteSeedBest == best_text

\* line 37: humanizer(text=current_text, ...)
RewriteSeed == current_text

\* variant of line 41 that scores the text the Rewriter was given
CheckedTextStale == current_text

\* line 41: zerogpt.check(new_text)
CheckedText == new_text

\* lines 37-38: the Rewriter returns a text
Humanize ==
    /\ pc = "humanize"
    /\ \E t \in rewriter[RewriteSeed] \ {NoText} :
         /\ new_text' = t
         /\ calls' = Append(calls, RewriterCall(RewriteSeed, citations, t))
    /\ pc' = "check"
    /\ UNCHANGED << args, proc, outs, current_text, iteration, best_score, best_text,
                    initial_check, current_score, history, check_result, result,
                    error, response >>

\* variant of line 37 that calls the Rewriter a second time before giving up
HumanizeRaisesAfterRetry ==
    /\ pc = "humanize"
    /\ NoText \in rewriter[RewriteSeed]
    /\ calls' = Append(Append(calls, RewriterCall(RewriteSeed, citations, NoText)),
                       RewriterCall(RewriteSeed, citations, NoText))
    /\ error' = "RewriteFailure"
    /\ pc' = "raised"
    /\ UNCHANGED << args, proc, outs, current_text, iteration, best_score, best_text,
                    initial_check, current_score, history, new_text, check_result,
                    result, response >>

\* line 37: the Rewriter raises; run has no handler, the exception leaves run
HumanizeRaises ==
    /\ pc = "humanize"
    /\ NoText \in rewriter[RewriteSeed]
    /\ calls' = Append(calls, RewriterCall(RewriteSeed, citations, NoText))
    /\ error' = "RewriteFailure"
    /\ pc' = "raised"
    /\ UNCHANGED << args, proc, outs, current_text, iteration, best_score, best_text,
                    initial_check, current_score, history, new_text, check_result,
                    result, response >>

\* lines 41-57
Check ==
    /\ stdout' = Logged(stdout)
    /\ pc = "check"
    /\ \E resp \in Answers(CheckedText) :
         LET chk == ZeroGPTCheck(api_key, resp)
             new_score == chk.human_percentage
         IN  /\ response' = resp
             /\ check_result' = chk
             /\ calls' = Append(calls, DetectorCall(CheckedText))
             /\ history' = Append(history, HistoryEntry(iteration, new_score))
             /\ current_text' = new_text
             /\ IF Improves(new_score, best_score)
                THEN best_score' = new_score /\ best_text' = new_text
                ELSE UNCHANGED << best_score, best_text >>
             /\ pc' = IF TargetReached(new_score, target_score) THEN "select" ELSE "loop"
    /\ UNCHANGED << args, proc, exit_code, iteration, initial_check, current_score, new_text,
                    result, error >>

\* line 63
FinalText == IF current_score >= target_score THEN current_text ELSE best_text
\* line 64
FinalScoreVal == IF current_score >= target_score THEN current_score ELSE best_score

\* lines 62-71
Select ==
    /\ pc = "select"
    /\ result' = << [humanized_text |-> FinalText,
                     final_score |-> [human_percentage |-> FinalScoreVal],
                     iterations |-> iteration,
                     history |-> history] >>
    /\ pc' = "returned"
    /\ UNCHANGED << args, proc, outs, current_text, iteration, best_score, best_text,
                    initial_check, current_score, history, new_text, check_result,
                    error, response, calls >>

(* ------------------------------ main ----------------------------------- *)
\* a document written to stdout with original_print(json.dumps(...))
ErrorDocument(message) == [document |-> "error", value |-> message]
ResultDocument(value) == [document |-> "result", value |-> value]

\* main, lines 34-37: fewer than two arguments
MainUsage ==
    /\ pc = "main"
    /\ argc < 3
    /\ stdout' = Append(stdout, ErrorDocument("Usage"))
    /\ exit_code' = 1
    /\ pc' = "exited"
    /\ UNCHANGED << args, proc, locals, result, error, response, calls >>

\* main, lines 42-46: json.loads raises JSONDecodeError
MainInvalidJSON ==
    /\ pc = "main"
    /\ argc >= 3
    /\ ~json_valid
    /\ stdout' = Append(stdout, ErrorDocument("Invalid JSON data"))
    /\ exit_code' = 1
    /\ pc' = "exited"
    /\ UNCHANGED << args, proc, locals, result, error, response, calls >>

\* main, lines 49-55: the generation pipeline returns and its result is printed
MainGeneration ==
    /\ pc = "main"
    /\ argc >= 3
    /\ json_valid
    /\ pipeline_name = "generation"
    /\ stdout' = Append(stdout, ResultDocument("thesis"))
    /\ exit_code' = 0
    /\ pc' = "exited"
    /\ UNCHANGED << args, proc, locals, result, error, response, calls >>

\* main, line 52: the generation pipeline raises
MainGenerationRaises ==
    /\ pc = "main"
    /\ argc >= 3
    /\ json_valid
    /\ pipeline_name = "generation"
    /\ error' = "GenerationError"
    /\ pc' = "raised"
    /\ UNCHANGED << args, proc, outs, locals, result, response, calls >>

\* main, lines 57-65: the humanization pipeline is called
MainHumanization ==
    /\ pc = "main"
    /\ argc >= 3
    /\ json_valid
    /\ pipeline_name = "humanization"
    /\ data_keys
    /\ pc' = "run"
    /\ UNCHANGED << args, proc, outs, locals, result, error, response, calls >>

\* main, lines 61-62: data['thesis_text'] or data['citations'] raises KeyError
MainHumanizationKeyError ==
    /\ pc = "main"
    /\ argc >= 3
    /\ json_valid
    /\ pipeline_name = "humanization"
    /\ ~data_keys
    /\ error' = "KeyError"
    /\ pc' = "raised"
    /\ UNCHANGED << args, proc, outs, locals, result, response, calls >>

\* main, lines 69-71: SystemExit is not an Exception, line 73 does not catch it
MainUnknownPipeline ==
    /\ pc = "main"
    /\ argc >= 3
    /\ json_valid
    /\ pipeline_name \notin {"generation", "humanization"}
    /\ stdout' = Append(stdout, ErrorDocument("Unknown pipeline"))
    /\ exit_code' = 1
    /\ pc' = "exited"
    /\ UNCHANGED << args, proc, locals, result, error, response, calls >>

\* main, lines 57-67: run returned, the result is printed
MainPrintResult ==
    /\ pc = "returned"
    /\ stdout' = Append(stdout, ResultDocument(result[1]))
    /\ exit_code' = 0
    /\ pc' = "exited"
    /\ UNCHANGED << args, proc, current_text, iteration, best_score, best_text,
                    initial_check, current_score, history, new_text, check_result,
                    result, error, response, calls >>

\* main, lines 73-76: except Exception
MainExcept ==
    /\ pc = "raised"
    /\ stdout' = Append(stdout, ErrorDocument(error))
    /\ exit_code' = 1
    /\ pc' = "exited"
    /\ UNCHANGED << args, proc, current_text, iteration, best_score, best_text,
                    initial_check, current_score, history, new_text, check_result,
                    result, error, response, calls >>

Next ==
    \/ MainUsage
    \/ MainInvalidJSON
    \/ MainGeneration
    \/ MainGenerationRaises
    \/ MainHumanization
    \/ MainHumanizationKeyError
    \/ MainUnknownPipeline
    \/ RunStart
    \/ InitialCheck
    \/ LoopEnter
    \/ LoopExit
    \/ Humanize
    \/ HumanizeRaises
    \/ Check
    \/ Select
    \/ MainPrintResult
    \/ MainExcept

Spec == Init /\ [][Next]_vars

\* main, lines 78-80: the same command line is executed a second time, in the
\* same environment and against the same collaborators
RunAgain ==
    /\ pc = "exited"
    /\ invocation = 1
    /\ invocation' = 2
    /\ first_result' = result
    /\ result' = <<>>
    /\ error' = ""
    /\ stdout' = <<>>
    /\ exit_code' = -1
    /\ response' = NoRequest
    /\ calls' = <<>>
    /\ pc' = "main"
    /\ UNCHANGED << args, locals, argc, pipeline_name, json_valid, data_keys,
                    detector, rewriter >>

NextDeterministic == Next \/ RunAgain

\* a process whose collaborator calls all return (with a value or an
\* exception): the key is set, the caller passes no citations
InitLive ==
    /\ InitProcess
    /\ api_key
    /\ citations = <<>>
    /\ detector = [t \in Texts |-> DeterministicAnswers]
    /\ rewriter = [t \in Texts |-> Texts \cup {NoText}]
    /\ IsRunCommand
         \/ /\ max_iterations = 0
            /\ target_score = 70

\* main and run are one sequential thread: while a step is possible, and
\* every call returns, the next step is taken
SpecLive == InitLive /\ [][Next]_vars /\ WF_vars(Next)

SpecDeterministic == InitDeterministic /\ [][NextDeterministic]_vars

(* ------------------------ vocabulary of the properties ------------------ *)
IsDetectorCall(c) == c.callee = "detector"
IsRewriterCall(c) == c.callee = "rewriter"
DetectorCalls == Len(SelectSeq(calls, IsDetectorCall))
RewriterCalls == Len(SelectSeq(calls, IsRewriterCall))
\* the texts handed to the Detector, in order: entry i is the text of history entry i
EvaluatedTexts == SelectSeq(calls, IsDetectorCall)

Checked == DOMAIN initial_check # {}
InitialScore == initial_check.human_percentage
Returned == Len(result) = 1
Res == result[1]
ResultsPrinted == { i \in 1..Len(stdout) : stdout[i].document = "result" }

MaxScore(h) == CHOOSE m \in { h[i].score : i \in 1..Len(h) } :
                  \A i \in 1..Len(h) : h[i].score <= m
\* no rewrite iteration of history h scored at or above the target
NoRewriteMetTarget(h) == \A i \in 2..Len(h) : h[i].score < target_score
\* every rewrite of history h scored strictly below the entry before it
StrictlyDecreasing(h) == \A i \in 2..Len(h) : h[i].score < h[i-1].score

\* the preconditions of run's contract hold: a budget >= 0 and a target in
\* [0, 100]; and every score of history h is in the Detector's range [0, 100]
ValidArguments == max_iterations >= 0 /\ target_score \in 0..100
ScoresInRange(h) == \A i \in 1..Len(h) : h[i].score \in 0..100

(* ------------------------------ C1 -------------------------------------- *)
\* C1: when the Detector's score of the input text is >= target_score, run
\* returns iterations = 0, the input text, a history of exactly the entry
\* {iteration 0, initial score}, and the Rewriter is never called.
C1_EarlyReturn ==
    (Checked /\ InitialScore >= target_score) =>
        /\ RewriterCalls = 0
        /\ pc \in {"returned", "exited"}
        /\ Returned
        /\ Res.iterations = 0
        /\ Res.humanized_text = thesis_text
        /\ Res.history = << [iteration |-> 0, score |-> InitialScore] >>

C1_Witness ==
    /\ pc = "exited"
    /\ Returned
    /\ InitialScore = 70
    /\ target_score = 70
    /\ max_iterations = MaxBudget
    /\ Res.iterations = 0

(* ------------------------------ C2 -------------------------------------- *)
\* C2: when run returns from a call within its contract and no rewrite iteration scored >= target_score,
\* final_score.human_percentage is the maximum score over all history
\* entries, the iteration-0 entry included.
C2_FinalIsMaxOfHistory ==
    (Returned /\ ValidArguments /\ ScoresInRange(Res.history)
              /\ NoRewriteMetTarget(Res.history)) =>
        Res.final_score.human_percentage = MaxScore(Res.history)

(* ------------------------------ C3 -------------------------------------- *)
\* C3: within the contract, when the initial score is below target and every rewrite scores
\* strictly lower than the score before it, run returns the input text.
C3_DecreasingReturnsInput ==
    (Returned /\ ValidArguments /\ ScoresInRange(Res.history)
              /\ Res.history[1].score < target_score
              /\ StrictlyDecreasing(Res.history)) =>
        Res.humanized_text = thesis_text

(* ------------------------------ C4 -------------------------------------- *)
\* C4: within the contract, after the loop the returned text is the most recent rewrite when that
\* rewrite scored >= target_score (and final_score is its score), otherwise
\* the text of the best candidate, i.e. of a highest-scoring evaluated text.
C4_CurrentOrBest ==
    (Returned /\ ValidArguments /\ ScoresInRange(Res.history)
              /\ Res.history[1].score < target_score) =>
        LET h == Res.history
            n == Len(h)
        IN  IF n > 1 /\ h[n].score >= target_score
            THEN /\ Res.humanized_text = EvaluatedTexts[n].text
                 /\ Res.final_score.human_percentage = h[n].score
            ELSE \E i \in 1..n : /\ h[i].score = MaxScore(h)
                                 /\ Res.humanized_text = EvaluatedTexts[i].text

(* ------------------------------ C5 -------------------------------------- *)
\* C5: for every max_iterations = N >= 0, iterations <= N and
\* len(history) <= N + 1, in the loop and in the returned record.
C5_BudgetRespected ==
    max_iterations >= 0 =>
        /\ iteration <= max_iterations
        /\ Len(history) <= max_iterations + 1
        /\ Returned => /\ Res.iterations <= max_iterations
                       /\ Len(Res.history) <= max_iterations + 1

C5_Witness ==
    /\ Returned
    /\ max_iterations >= 2
    /\ Res.iterations = max_iterations
    /\ Len(Res.history) = max_iterations + 1

(* ------------------------------ C6 -------------------------------------- *)
\* C6: with max_iterations = 0 and an initial score below target, no
\* Rewriter call is made and run returns the input text with the input
\* text's initial score and iterations = 0.
C6_ZeroBudgetReturnsOriginal ==
    (Returned /\ max_iterations = 0 /\ target_score \in 0..100
              /\ InitialScore \in 0..100 /\ InitialScore < target_score) =>
        /\ RewriterCalls = 0
        /\ Res.humanized_text = thesis_text
        /\ Res.final_score.human_percentage = InitialScore
        /\ Res.iterations = 0

(* ------------------------------ C7 -------------------------------------- *)
InvalidArguments == ~ValidArguments

\* C7: a call with max_iterations < 0 or target_score outside [0, 100] is
\* rejected before any Detector or Rewriter call, and returns no result.
C7_InvalidArgumentsRejected ==
    InvalidArguments => /\ calls = << >>
                        /\ ~Returned
                        /\ ResultsPrinted = {}

(* ------------------------------ C8 -------------------------------------- *)
\* C8: when the Rewriter call of iteration k fails, the error leaves run:
\* no result record is returned or printed, the Rewriter was called exactly
\* k times (no retry), the Detector exactly k times (the initial check and
\* k-1 evaluations), and the failed call is the last collaborator call.
C8_RewriteFailureIsFatal ==
    error = "RewriteFailure" =>
        /\ pc \in {"raised", "exited"}
        /\ ~Returned
        /\ ResultsPrinted = {}
        /\ RewriterCalls = iteration
        /\ DetectorCalls = iteration
        /\ Len(history) = iteration
        /\ IsRewriterCall(calls[Len(calls)])
        /\ pc = "exited" => stdout = << ErrorDocument(error) >>
                            /\ exit_code = 1

C8_Witness ==
    /\ error = "RewriteFailure"
    /\ iteration = 2
    /\ pc = "exited"
    /\ exit_code = 1

(* ------------------------------ C9 -------------------------------------- *)
LastCheck == IF DOMAIN check_result # {} THEN check_result ELSE initial_check

\* the body is neither of the two formats check() reads a score from
UnexpectedBody(b) ==
    /\ ~(/\ Get(b, "success", FALSE)
         /\ "data" \in DOMAIN b
         /\ "is_human_written" \in DOMAIN b.data)
    /\ "fakePercentage" \notin DOMAIN b

\* the check could not be completed: no key, no answer, or no usable body
DetectionFailed ==
    \/ ~api_key
    \/ response.kind \in {"network_error", "http_error", "invalid_json"}
    \/ response.kind = "json_object" /\ UnexpectedBody(response.body)

\* C9: check returns a human_percentage in [0, 100] on every path, and the
\* fail-open fallback 100 on every internal failure.
C9_DetectorFailsOpenInRange ==
    DOMAIN LastCheck # {} =>
        /\ LastCheck.human_percentage \in 0..100
        /\ DetectionFailed => LastCheck.human_percentage = 100

(* ------------------------------ C10 ------------------------------------- *)
\* the Detector was unavailable on the latest check
DetectorUnavailable ==
    \/ ~api_key
    \/ response.kind \in {"network_error", "http_error", "invalid_json"}

\* C10: when the Detector is unavailable on the evaluation of iteration
\* k >= 1, that evaluation scores 100, the loop stops at iteration k and run
\* returns iteration k's rewrite with iterations = k and final score 100.
C10_UnavailableMidLoopIsSuccess ==
    (iteration >= 1 /\ Len(history) = iteration + 1 /\ DetectorUnavailable) =>
        /\ history[iteration + 1].score = 100
        /\ pc \in {"select", "returned", "exited"}
        /\ RewriterCalls = iteration
        /\ Returned => /\ Res.iterations = iteration
                       /\ Res.humanized_text = current_text
                       /\ Res.final_score.human_percentage = 100

(* ------------------------------ C11 ------------------------------------- *)
\* C11: an execution of main that has ended has written exactly one document
\* to stdout: the pipeline's result with exit status 0, or an error object
\* with exit status 1 (too few arguments, undecodable JSON, unknown pipeline,
\* an exception of the pipeline); before it ends nothing has been written.
C11_OneDocumentPerExecution ==
    /\ pc # "exited" => stdout = << >> /\ exit_code = -1
    /\ pc = "exited" =>
          /\ Len(stdout) = 1
          /\ \/ stdout[1].document = "result" /\ exit_code = 0 /\ error = ""
             \/ stdout[1].document = "error" /\ exit_code = 1
          /\ (argc < 3 \/ ~json_valid \/ error # ""
                 \/ pipeline_name \notin {"generation", "humanization"})
                => stdout[1].document = "error"

C11_Witness ==
    /\ pc = "exited"
    /\ argc = 3
    /\ json_valid
    /\ pipeline_name = "export"
    /\ stdout = << ErrorDocument("Unknown pipeline") >>
    /\ exit_code = 1

(* ------------------------------ C12 ------------------------------------- *)
\* C12: against a deterministic Detector and Rewriter, a second invocation
\* of run with the same text, citations, budget and target returns exactly
\* when the first did, with the same iterations and the same humanized_text.
C12_RepeatedRunAgrees ==
    /\ (invocation = 2 /\ Returned) =>
          /\ Len(first_result) = 1
          /\ Res.iterations = first_result[1].iterations
          /\ Res.humanized_text = first_result[1].humanized_text
    /\ (invocation = 2 /\ pc = "exited" /\ Len(first_result) = 1) => Returned

C12_Witness ==
    /\ invocation = 2
    /\ Returned
    /\ Res.iterations = 2
    /\ Res.humanized_text # thesis_text
    /\ Res = first_result[1]

(* ------------------------------ C13 ------------------------------------- *)
\* the history of the invocation: the list of run, or the one it returned
RecordedHistory == IF Returned THEN Res.history ELSE history
\* entry number i (counted from 0) of history h has iteration field i
EntriesNumbered(h) == \A i \in 1..Len(h) : h[i].iteration = i - 1
\* an iteration has incremented the counter and not yet appended its score
InsideIteration == pc \in {"humanize", "check"} \/ error = "RewriteFailure"

\* C13 as stated: once the initial evaluation is recorded,
\* len(history) = iteration + 1 in every state, inside an iteration and when
\* a Rewriter failure is raised included, and entry i has iteration field i.
C13_HistoryLengthAlways ==
    Len(RecordedHistory) >= 1 =>
        /\ Len(RecordedHistory) = iteration + 1
        /\ EntriesNumbered(RecordedHistory)

\* C13 amended: once the initial evaluation is recorded, entry i has
\* iteration field i, and len(history) = iteration + 1 at the loop test,
\* after an iteration's score is appended and in the returned record, while
\* len(history) = iteration between the increment of the counter and the
\* append, and when a Rewriter failure is raised.
C13_HistoryLengthBetweenIterations ==
    Len(RecordedHistory) >= 1 =>
        /\ EntriesNumbered(RecordedHistory)
        /\ Len(RecordedHistory) = IF InsideIteration THEN iteration ELSE iteration + 1
        /\ Returned => Len(Res.history) = Res.iterations + 1

C13_Witness ==
    /\ pc = "check"
    /\ iteration = 2
    /\ Len(history) = 2
    /\ history[2].iteration = 1

(* ------------------------------ C14 ------------------------------------- *)
\* C14: within the contract, best equals the initial candidate after the
\* initial evaluation, and after each completed iteration best_score is the
\* highest score recorded in history so far (the initial one included) and
\* best_text is a text that received that score.
C14_BestIsMaxSeen ==
    (pc \in {"loop", "select"} /\ ValidArguments /\ ScoresInRange(history)) =>
        /\ best_score = MaxScore(history)
        /\ \E i \in 1..Len(history) : /\ history[i].score = best_score
                                       /\ EvaluatedTexts[i].text = best_text
        /\ iteration = 0 => best_score = InitialScore /\ best_text = thesis_text

(* ------------------------------ C15 ------------------------------------- *)
\* the rewrite iterations of history h that scored at or above the target
Hits(h) == { k \in 1..(Len(h) - 1) : h[k + 1].score >= target_score }

\* C15: with an initial score below target and max_iterations = N >= 0, the
\* returned iterations is the smallest k whose rewrite met the target, or N
\* when none did (no short-circuit for rewrites that do not improve), and no
\* score is requested after the first one that meets the target.
C15_StopsAtFirstHitOrBudget ==
    (Returned /\ max_iterations >= 0 /\ Res.history[1].score < target_score) =>
        LET h == Res.history
            k == Res.iterations
        IN  /\ Len(h) = k + 1
            /\ DetectorCalls = k + 1
            /\ RewriterCalls = k
            /\ IF Hits(h) # {}
               THEN Hits(h) = {k}
               ELSE k = max_iterations

C15_Witness ==
    /\ Returned
    /\ max_iterations = 2
    /\ target_score = 70
    /\ Res.iterations = 1
    /\ Res.history = << [iteration |-> 0, score |-> 40], [iteration |-> 1, score |-> 70] >>

(* ------------------------------ C16 ------------------------------------- *)
RewriterLog == SelectSeq(calls, IsRewriterCall)

\* C16: the Rewriter call of iteration k is given the text returned by the
\* Rewriter call of iteration k-1 (the input text for k = 1) and the
\* caller's citation sequence, which is the same on every call.
C16_RewritesFromLatestText ==
    \A k \in 1..Len(RewriterLog) :
        /\ RewriterLog[k].citations = citations
        /\ RewriterLog[k].text = IF k = 1 THEN thesis_text
                                          ELSE RewriterLog[k - 1].output

C16_Witness ==
    /\ pc = "check"
    /\ Len(RewriterLog) = 2
    /\ RewriterLog[2].text # best_text
    /\ RewriterLog[2].text = RewriterLog[1].output
    /\ RewriterLog[2].citations = << "c1", "c2" >>

(* ------------------------------ C17 ------------------------------------- *)
Max0(n) == IF n < 0 THEN 0 ELSE n

\* the invocation of run has ended: with a complete result record after at
\* most max_iterations rewrites, or with the error of the call that raised
RunEnded ==
    \/ /\ Returned
       /\ error = ""
       /\ DOMAIN Res = {"humanized_text", "final_score", "iterations", "history"}
       /\ RewriterCalls <= Max0(max_iterations)
       /\ Res.iterations <= Max0(max_iterations)
    \/ /\ ~Returned
       /\ error = "RewriteFailure"
       /\ IsRewriterCall(calls[Len(calls)])

C18_TextAndScoreSameCandidate ==
    (Returned /\ ValidArguments /\ ScoresInRange(Res.history)) =>
        \E i \in 1..Len(Res.history) :
            /\ EvaluatedTexts[i].text = Res.humanized_text
            /\ Res.history[i].score = Res.final_score.human_percentage

(* ------------------------------ C19 ------------------------------------- *)
\* C19: the calls of run alternate: a Detector call on the input text, then
\* per iteration one Rewriter call followed by one Detector call on the text
\* that Rewriter call returned; a result with iterations = k comes after
\* exactly k Rewriter calls and k + 1 Detector calls.
C19_CallsAlternate ==
    /\ Len(calls) >= 1 => IsDetectorCall(calls[1]) /\ calls[1].text = thesis_text
    /\ \A j \in 2..Len(calls) :
          IF j % 2 = 0
          THEN IsRewriterCall(calls[j])
          ELSE /\ IsDetectorCall(calls[j])
               /\ calls[j - 1].output # NoText
               /\ calls[j].text = calls[j - 1].output
    /\ Returned => /\ RewriterCalls = Res.iterations
                   /\ DetectorCalls = Res.iterations + 1

C19_Witness ==
    /\ Returned
    /\ Res.iterations = 2
    /\ Len(calls) = 5
    /\ calls[2].output # calls[2].text
    /\ calls[3].text = calls[2].output

====
